---- MODULE Spec2Model ----
(***************************************************************************)
(* ax/service/utils/storage.py: the service layer's storage utilities.     *)
(* Every public function takes a DBSettings value, (re)initialises the     *)
(* process-wide engine/session factory and delegates to one encoder or     *)
(* decoder function of ax.storage.sqa_store.  The model records, for each  *)
(* public call, the sequence of collaborator invocations it makes, its     *)
(* outcome (returned value or raised error) and its effect on the store.   *)
(***************************************************************************)
EXTENDS Integers, Sequences, FiniteSets, TLC

\* Bounds of the model.
MaxRuns == 3        \* generator runs the in-memory strategy may accumulate
MaxDurable == 4     \* generator-run rows the store may hold for the strategy
MaxBatch == 2       \* longest list of trials / generator runs handed to one call
MaxTrials == 2      \* trials the in-memory experiment may hold (indices 0..MaxTrials-1)

VARIABLES
    session,        \* process-wide engine/session factory: "none" or the url it targets
    db,             \* durable store: experiment object, strategy row, run rows, trial rows
    gs_runs,        \* in-memory generation strategy: its generator runs, in order
    exp_trials,     \* in-memory experiment: trial index -> 0 (no such trial), 1 (trial as
                    \* created) or 2 (its state or attached data changed since)
    op,             \* the last step taken: public function name and arguments
    pre,            \* store and memory as they were when the last step started
    calls,          \* collaborator invocations made by the last step, in order
    result          \* outcome of the last step: returned value or raised error

vars == <<session, db, gs_runs, exp_trials, op, pre, calls, result>>

-----------------------------------------------------------------------------
\* Values

\* The DBSettings value passed to every call (creator, url, encoder, decoder).
db_settings == [creator |-> "creator", url |-> "url", encoder |-> "encoder", decoder |-> "decoder"]

experiment_name == "exp1"

TrialIdx == 0 .. (MaxTrials - 1)

\* Objects an encoder may be given or a decoder may hand back for an
\* experiment name: a full Experiment, a SimpleExperiment (a subclass of
\* Experiment whose is_simple_experiment is true), or something that is no
\* Experiment at all.  NoObject stands for "nothing" (no row, no value).
NoObject == ""
ExperimentObjects == {"Experiment", "SimpleExperiment", "Other"}
IsInstanceExperiment(obj) == obj \in {"Experiment", "SimpleExperiment"}
is_simple_experiment(obj) == obj = "SimpleExperiment"

\* Errors: the Python exception class and the condition that raised it.
NoError == [cls |-> "", why |-> ""]
Error(cls, why) == [cls |-> cls, why |-> why]

\* Faults a collaborator may raise on its own (environment input).
InitFaults == {NoError, Error("ConnectionError", "connect")}
CodecFaults == {NoError, Error("EncodeDecodeError", "codec")}
DecodeStrategyFaults == CodecFaults \cup {Error("ValueError", "codec")}
\* A store function is not reached when the initialisation before it fails,
\* so only one choice is offered for its fault then.
StoreFaults(init_fault) == IF init_fault = NoError THEN CodecFaults ELSE {NoError}

\* One collaborator invocation: function name, its string arguments, its
\* list argument (trial indices or generator runs).
Call(fn, strs, xs) == [fn |-> fn, strs |-> strs, xs |-> xs]

\* The outcome of a public call.
Return(experiment, strategy, runs, id) ==
    [kind |-> "return", err |-> NoError, experiment |-> experiment,
     strategy |-> strategy, runs |-> runs, id |-> id]
Raise(err) ==
    [kind |-> "raise", err |-> err, experiment |-> NoObject,
     strategy |-> "", runs |-> <<>>, id |-> 0]
ReturnNone == Return(NoObject, "", <<>>, 0)

\* Process state threaded through a call: session factory and store.
State(s, d) == [session |-> s, db |-> d]
Outcome(st, cs, res) == [st |-> st, calls |-> cs, result |-> res]
Collab(st, err, val) == [st |-> st, err |-> err, val |-> val]

IsPrefix(s, t) == Len(s) <= Len(t) /\ SubSeq(t, 1, Len(s)) = s

\* Lists of distinct trial indices of length 1..MaxBatch.
TrialLists ==
    {xs \in UNION {[1 .. n -> TrialIdx] : n \in 1 .. MaxBatch} :
        \A i, j \in DOMAIN xs : i # j => xs[i] # xs[j]}

\* Lists of generator runs a caller may pass: any contiguous stretch of the
\* in-memory history, of length 0..MaxBatch.
RunLists(runs) ==
    {xs \in {SubSeq(runs, a, b) : a \in 1 .. (Len(runs) + 1), b \in 0 .. Len(runs)} :
        Len(xs) <= MaxBatch}

-----------------------------------------------------------------------------
\* Collaborators (ax.storage.sqa_store), at their interface boundary.
\* Each takes the process state and returns the new state, the error it
\* raised (NoError if none) and its return value.

\* db.init_engine_and_session_factory: points the process-wide session
\* factory at url; a connection failure propagates.
init_engine_and_session_factory(st, creator, url, fault) ==
    IF fault # NoError THEN Collab(st, fault, 0)
    ELSE Collab([st EXCEPT !.session = url], NoError, 0)

\* Every encoder/decoder function needs an initialised session factory.
SessionError(st) ==
    IF st.session = "none" THEN Error("ValueError", "engine_not_initialized") ELSE NoError

\* load._get_experiment_id: the durable id, or None (0) when there is no such experiment.
_get_experiment_id(st, name, decoder, fault) ==
    IF SessionError(st) # NoError THEN Collab(st, SessionError(st), 0)
    ELSE IF fault # NoError THEN Collab(st, fault, 0)
    ELSE Collab(st, NoError, IF st.db.experiment = NoObject THEN 0 ELSE 1)

\* load._get_generation_strategy_id: likewise for the attached strategy.
_get_generation_strategy_id(st, name, decoder, fault) ==
    IF SessionError(st) # NoError THEN Collab(st, SessionError(st), 0)
    ELSE IF fault # NoError THEN Collab(st, fault, 0)
    ELSE Collab(st, NoError, IF st.db.has_gs THEN 1 ELSE 0)

\* load._load_experiment: decodes the object stored under the name.
_load_experiment(st, name, decoder, fault) ==
    IF SessionError(st) # NoError THEN Collab(st, SessionError(st), NoObject)
    ELSE IF st.db.experiment = NoObject
         THEN Collab(st, Error("ValueError", "experiment_not_found"), NoObject)
    ELSE IF fault # NoError THEN Collab(st, fault, NoObject)
    ELSE Collab(st, NoError, st.db.experiment)

\* load._load_generation_strategy_by_experiment_name: decodes the attached
\* strategy; raises ValueError when none is attached.
_load_generation_strategy_by_experiment_name(st, name, decoder, fault) ==
    IF SessionError(st) # NoError THEN Collab(st, SessionError(st), <<>>)
    ELSE IF ~st.db.has_gs
         THEN Collab(st, Error("ValueError", "no_strategy_attached"), <<>>)
    ELSE IF fault # NoError THEN Collab(st, fault, <<>>)
    ELSE Collab(st, NoError, st.db.runs)

\* save._save_experiment: inserts or overwrites the whole experiment graph
\* (the experiment and its trials).
_save_experiment(st, experiment, encoder, fault) ==
    IF SessionError(st) # NoError THEN Collab(st, SessionError(st), 0)
    ELSE IF fault # NoError THEN Collab(st, fault, 0)
    ELSE Collab([st EXCEPT !.db.experiment = experiment.kind,
                           !.db.trials = experiment.trials], NoError, 0)

\* save._save_generation_strategy: persists the strategy with its full
\* generator-run history.
_save_generation_strategy(st, generation_strategy, encoder, fault) ==
    IF SessionError(st) # NoError THEN Collab(st, SessionError(st), 0)
    ELSE IF fault # NoError THEN Collab(st, fault, 0)
    ELSE Collab([st EXCEPT !.db.has_gs = TRUE, !.db.runs = generation_strategy],
                NoError, 0)

\* save._update_generation_strategy: appends the given generator runs to
\* the rows of an already saved strategy.
_update_generation_strategy(st, generation_strategy, generator_runs, encoder, fault) ==
    IF SessionError(st) # NoError THEN Collab(st, SessionError(st), 0)
    ELSE IF ~st.db.has_gs
         THEN Collab(st, Error("ValueError", "strategy_not_saved"), 0)
    ELSE IF fault # NoError THEN Collab(st, fault, 0)
    ELSE Collab([st EXCEPT !.db.runs = @ \o generator_runs], NoError, 0)

\* Writing trial rows: each listed trial is written, with the state and data
\* the in-memory experiment holds for it, as one logical write.
WriteTrials(trial_rows, experiment, trials) ==
    [i \in TrialIdx |->
        IF \E k \in DOMAIN trials : trials[k] = i
        THEN experiment.trials[i] ELSE trial_rows[i]]

\* save._save_new_trials
_save_new_trials(st, experiment, trials, encoder, fault) ==
    IF SessionError(st) # NoError THEN Collab(st, SessionError(st), 0)
    ELSE IF fault # NoError THEN Collab(st, fault, 0)
    ELSE Collab([st EXCEPT !.db.trials = WriteTrials(@, experiment, trials)], NoError, 0)

\* save._update_trials
_update_trials(st, experiment, trials, encoder, fault) ==
    IF SessionError(st) # NoError THEN Collab(st, SessionError(st), 0)
    ELSE IF fault # NoError THEN Collab(st, fault, 0)
    ELSE Collab([st EXCEPT !.db.trials = WriteTrials(@, experiment, trials)], NoError, 0)

\* logger.debug with the elapsed time.
LogCall(what) == Call("logger.debug", <<what>>, <<>>)

InitCall(db_s) == Call("init_engine_and_session_factory", <<db_s.creator, db_s.url>>, <<>>)

-----------------------------------------------------------------------------
\* The public functions of storage.py.  Each returns the process state it
\* leaves, the collaborator invocations it made and its outcome.

get_experiment_id(st, name, db_s, f_init, f_store) ==
    LET i == init_engine_and_session_factory(st, db_s.creator, db_s.url, f_init)
        d == _get_experiment_id(i.st, name, db_s.decoder, f_store)
        c == Call("_get_experiment_id", <<name, db_s.decoder>>, <<>>)
    IN  IF i.err # NoError THEN Outcome(i.st, <<InitCall(db_s)>>, Raise(i.err))
        ELSE IF d.err # NoError THEN Outcome(d.st, <<InitCall(db_s), c>>, Raise(d.err))
        ELSE Outcome(d.st, <<InitCall(db_s), c>>, Return(NoObject, "", <<>>, d.val))

get_generation_strategy_id(st, name, db_s, f_init, f_store) ==
    LET i == init_engine_and_session_factory(st, db_s.creator, db_s.url, f_init)
        d == _get_generation_strategy_id(i.st, name, db_s.decoder, f_store)
        c == Call("_get_generation_strategy_id", <<name, db_s.decoder>>, <<>>)
    IN  IF i.err # NoError THEN Outcome(i.st, <<InitCall(db_s)>>, Raise(i.err))
        ELSE IF d.err # NoError THEN Outcome(d.st, <<InitCall(db_s), c>>, Raise(d.err))
        ELSE Outcome(d.st, <<InitCall(db_s), c>>, Return(NoObject, "", <<>>, d.val))

\* Variant: the test without its is_simple_experiment half.
UnsupportedNoSimpleCheck(experiment) == ~IsInstanceExperiment(experiment)

\* `not isinstance(experiment, Experiment) or experiment.is_simple_experiment`
UnsupportedExperiment(experiment) ==
    ~IsInstanceExperiment(experiment) \/ is_simple_experiment(experiment)

load_experiment(st, name, db_s, f_init, f_store) ==
    LET i == init_engine_and_session_factory(st, db_s.creator, db_s.url, f_init)
        d == _load_experiment(i.st, name, db_s.decoder, f_store)
        c == Call("_load_experiment", <<name, db_s.decoder>>, <<>>)
    IN  IF i.err # NoError THEN Outcome(i.st, <<InitCall(db_s)>>, Raise(i.err))
        ELSE IF d.err # NoError THEN Outcome(d.st, <<InitCall(db_s), c>>, Raise(d.err))
        ELSE IF UnsupportedExperiment(d.val)
             THEN Outcome(d.st, <<InitCall(db_s), c>>,
                          Raise(Error("ValueError", "Service API only supports Experiment")))
        ELSE Outcome(d.st, <<InitCall(db_s), c, LogCall("Loaded experiment")>>,
                     Return(d.val, "", <<>>, 0))

save_experiment(st, experiment, db_s, f_init, f_store) ==
    LET i == init_engine_and_session_factory(st, db_s.creator, db_s.url, f_init)
        d == _save_experiment(i.st, experiment, db_s.encoder, f_store)
        c == Call("_save_experiment", <<experiment.kind, db_s.encoder>>, <<>>)
    IN  IF i.err # NoError THEN Outcome(i.st, <<InitCall(db_s)>>, Raise(i.err))
        ELSE IF d.err # NoError THEN Outcome(d.st, <<InitCall(db_s), c>>, Raise(d.err))
        ELSE Outcome(d.st, <<InitCall(db_s), c, LogCall("Saved experiment")>>, ReturnNone)

\* Variant: a handler that catches nothing.
ExceptNothing(err) == FALSE

\* `except ValueError:`
ExceptValueError(err) == err.cls = "ValueError"

\* Variant: the strategy is not looked up at all.
LoadStrategySkipped(e, name, db_s, f_store) ==
    Outcome(e.st, e.calls, Return(e.result.experiment, "None", <<>>, 0))

\* The strategy half of load_experiment_and_generation_strategy: what follows
\* a successful load_experiment (e is its outcome).
LoadStrategyAfterExperiment(e, name, db_s, f_store) ==
    LET g == _load_generation_strategy_by_experiment_name(e.st, name, db_s.decoder, f_store)
        c == Call("_load_generation_strategy_by_experiment_name", <<name, db_s.decoder>>, <<>>)
    IN  IF g.err # NoError
        THEN IF ExceptValueError(g.err)
             THEN Outcome(g.st, Append(e.calls, c),
                          Return(e.result.experiment, "None", <<>>, 0))
             ELSE Outcome(g.st, Append(e.calls, c), Raise(g.err))
        ELSE Outcome(g.st, Append(e.calls, c),
                     Return(e.result.experiment, "GenerationStrategy", g.val, 0))

load_experiment_and_generation_strategy(st, name, db_s, f_init, f_exp, f_gs) ==
    LET e == load_experiment(st, name, db_s, f_init, f_exp)
    IN  IF e.result.kind = "raise" THEN e
        ELSE LoadStrategyAfterExperiment(e, name, db_s, f_gs)

\* save_generation_strategy makes no call of init_engine_and_session_factory.
save_generation_strategy(st, generation_strategy, db_s, f_store) ==
    LET d == _save_generation_strategy(st, generation_strategy, db_s.encoder, f_store)
        c == Call("_save_generation_strategy", <<"generation_strategy", db_s.encoder>>,
                  generation_strategy)
    IN  IF d.err # NoError THEN Outcome(d.st, <<c>>, Raise(d.err))
        ELSE Outcome(d.st, <<c, LogCall("Saved generation strategy")>>, ReturnNone)

\* Variant: every trial of the experiment is handed over, not the listed ones.
AllTrialsOf(experiment, trials) ==
    SelectSeq([k \in 1 .. MaxTrials |-> k - 1], LAMBDA i : experiment.trials[i] > 0)

\* `trials=trials` in save_new_trials
NewTrialsArgument(experiment, trials) == trials

\* `trials=trials` in save_updated_trials
UpdatedTrialsArgument(experiment, trials) == trials

save_new_trials(st, experiment, trials, db_s, f_init, f_store) ==
    LET i == init_engine_and_session_factory(st, db_s.creator, db_s.url, f_init)
        a == NewTrialsArgument(experiment, trials)
        d == _save_new_trials(i.st, experiment, a, db_s.encoder, f_store)
        c == Call("_save_new_trials", <<experiment_name, db_s.encoder>>, a)
    IN  IF i.err # NoError THEN Outcome(i.st, <<InitCall(db_s)>>, Raise(i.err))
        ELSE IF d.err # NoError THEN Outcome(d.st, <<InitCall(db_s), c>>, Raise(d.err))
        ELSE Outcome(d.st, <<InitCall(db_s), c, LogCall("Saved trials")>>, ReturnNone)

save_updated_trials(st, experiment, trials, db_s, f_init, f_store) ==
    LET i == init_engine_and_session_factory(st, db_s.creator, db_s.url, f_init)
        a == UpdatedTrialsArgument(experiment, trials)
        d == _update_trials(i.st, experiment, a, db_s.encoder, f_store)
        c == Call("_update_trials", <<experiment_name, db_s.encoder>>, a)
    IN  IF i.err # NoError THEN Outcome(i.st, <<InitCall(db_s)>>, Raise(i.err))
        ELSE IF d.err # NoError THEN Outcome(d.st, <<InitCall(db_s), c>>, Raise(d.err))
        ELSE Outcome(d.st, <<InitCall(db_s), c, LogCall("Updated trials")>>, ReturnNone)

\* Variant: the single new-trial form delegating to the wrong batch form.
SaveNewTrialAsUpdated(st, experiment, trial, db_s, f_init, f_store) ==
    save_updated_trials(st, experiment, <<trial>>, db_s, f_init, f_store)

\* The single-trial forms delegate to the batch forms with `trials=[trial]`.
save_new_trial(st, experiment, trial, db_s, f_init, f_store) ==
    save_new_trials(st, experiment, <<trial>>, db_s, f_init, f_store)

save_updated_trial(st, experiment, trial, db_s, f_init, f_store) ==
    save_updated_trials(st, experiment, <<trial>>, db_s, f_init, f_store)

\* Variants: the strategy's whole history is handed over; the first new run
\* is left out; the new runs are handed over in reverse.
WholeHistory(generation_strategy, generator_runs) == generation_strategy
DropFirstRun(generation_strategy, generator_runs) ==
    IF generator_runs = <<>> THEN <<>> ELSE Tail(generator_runs)
ReversedRuns(generation_strategy, generator_runs) ==
    [k \in 1 .. Len(generator_runs) |-> generator_runs[Len(generator_runs) + 1 - k]]

\* `generator_runs=generator_runs` in update_generation_strategy
GeneratorRunsArgument(generation_strategy, generator_runs) == generator_runs

update_generation_strategy(st, generation_strategy, generator_runs, db_s, f_init, f_store) ==
    LET i == init_engine_and_session_factory(st, db_s.creator, db_s.url, f_init)
        a == GeneratorRunsArgument(generation_strategy, generator_runs)
        d == _update_generation_strategy(i.st, generation_strategy, a, db_s.encoder, f_store)
        c == Call("_update_generation_strategy", <<"generation_strategy", db_s.encoder>>, a)
    IN  IF i.err # NoError THEN Outcome(i.st, <<InitCall(db_s)>>, Raise(i.err))
        ELSE IF d.err # NoError THEN Outcome(d.st, <<InitCall(db_s), c>>, Raise(d.err))
        ELSE Outcome(d.st, <<InitCall(db_s), c, LogCall("Updated generation strategy")>>,
                     ReturnNone)

-----------------------------------------------------------------------------
\* The state machine: a caller holding one experiment and one generation
\* strategy in memory, calling the public functions in any order.

NoTrials == [i \in TrialIdx |-> 0]

Init ==
    /\ session = "none"
    /\ \E e \in ExperimentObjects \cup {NoObject} :
            db = [experiment |-> e, has_gs |-> FALSE, runs |-> <<>>, trials |-> NoTrials]
    /\ gs_runs = <<>>
    /\ exp_trials = NoTrials
    /\ op = [name |-> "start", xs |-> <<>>, obj |-> NoObject, faults |-> <<>>]
    /\ pre = [session |-> "none", db |-> db, gs_runs |-> <<>>, exp_trials |-> NoTrials]
    /\ calls = <<>>
    /\ result = ReturnNone

Snapshot == [session |-> session, db |-> db, gs_runs |-> gs_runs, exp_trials |-> exp_trials]

\* A public call: the process state becomes what the function leaves.
Step(name, xs, obj, faults, o) ==
    /\ session' = o.st.session
    /\ db' = o.st.db
    /\ op' = [name |-> name, xs |-> xs, obj |-> obj, faults |-> faults]
    /\ pre' = Snapshot
    /\ calls' = o.calls
    /\ result' = o.result
    /\ UNCHANGED <<gs_runs, exp_trials>>

\* A change of the in-memory objects only.
InMemory(name) ==
    /\ op' = [name |-> name, xs |-> <<>>, obj |-> NoObject, faults |-> <<>>]
    /\ pre' = Snapshot
    /\ calls' = <<>>
    /\ result' = ReturnNone
    /\ UNCHANGED <<session, db>>

Here == State(session, db)
TheExperiment == [kind |-> "Experiment", trials |-> exp_trials]
CreatedTrialLists == {xs \in TrialLists : \A k \in DOMAIN xs : exp_trials[xs[k]] > 0}

\* The generation strategy produces one more generator run.
AppendGeneratorRun ==
    /\ Len(gs_runs) < MaxRuns
    /\ gs_runs' = Append(gs_runs, Len(gs_runs) + 1)
    /\ UNCHANGED exp_trials
    /\ InMemory("append_generator_run")

\* The experiment gets a new trial, with the next index.
CreateTrial ==
    /\ \E i \in TrialIdx :
        /\ exp_trials[i] = 0
        /\ \A j \in TrialIdx : j < i => exp_trials[j] > 0
        /\ exp_trials' = [exp_trials EXCEPT ![i] = 1]
    /\ UNCHANGED gs_runs
    /\ InMemory("create_trial")

\* A trial's state or attached data changes.
ChangeTrial ==
    /\ \E i \in TrialIdx :
        /\ exp_trials[i] = 1
        /\ exp_trials' = [exp_trials EXCEPT ![i] = 2]
    /\ UNCHANGED gs_runs
    /\ InMemory("change_trial")

GetExperimentId ==
    \E fi \in InitFaults : \E fs \in StoreFaults(fi) :
        Step("get_experiment_id", <<>>, NoObject, <<fi, fs>>,
             get_experiment_id(Here, experiment_name, db_settings, fi, fs))

GetGenerationStrategyId ==
    \E fi \in InitFaults : \E fs \in StoreFaults(fi) :
        Step("get_generation_strategy_id", <<>>, NoObject, <<fi, fs>>,
             get_generation_strategy_id(Here, experiment_name, db_settings, fi, fs))

LoadExperiment ==
    \E fi \in InitFaults : \E fs \in StoreFaults(fi) :
        Step("load_experiment", <<>>, NoObject, <<fi, fs>>,
             load_experiment(Here, experiment_name, db_settings, fi, fs))

SaveExperiment ==
    \E kind \in {"Experiment", "SimpleExperiment"}, fi \in InitFaults : \E fs \in StoreFaults(fi) :
        Step("save_experiment", <<>>, kind, <<fi, fs>>,
             save_experiment(Here, [kind |-> kind, trials |-> exp_trials],
                             db_settings, fi, fs))

LoadExperimentAndGenerationStrategy ==
    \E fi \in InitFaults : \E fe \in StoreFaults(fi), fg \in DecodeStrategyFaults :
        Step("load_experiment_and_generation_strategy", <<>>, NoObject, <<fi, fe, fg>>,
             load_experiment_and_generation_strategy(Here, experiment_name, db_settings,
                                                     fi, fe, fg))

SaveGenerationStrategy ==
    \E fs \in CodecFaults :
        Step("save_generation_strategy", <<>>, NoObject, <<fs>>,
             save_generation_strategy(Here, gs_runs, db_settings, fs))

SaveNewTrial ==
    \E t \in TrialIdx, fi \in InitFaults : \E fs \in StoreFaults(fi) :
        /\ exp_trials[t] > 0
        /\ Step("save_new_trial", <<t>>, NoObject, <<fi, fs>>,
                save_new_trial(Here, TheExperiment, t, db_settings, fi, fs))

SaveNewTrials ==
    \E ts \in CreatedTrialLists, fi \in InitFaults : \E fs \in StoreFaults(fi) :
        Step("save_new_trials", ts, NoObject, <<fi, fs>>,
             save_new_trials(Here, TheExperiment, ts, db_settings, fi, fs))

SaveUpdatedTrial ==
    \E t \in TrialIdx, fi \in InitFaults : \E fs \in StoreFaults(fi) :
        /\ exp_trials[t] > 0
        /\ Step("save_updated_trial", <<t>>, NoObject, <<fi, fs>>,
                save_updated_trial(Here, TheExperiment, t, db_settings, fi, fs))

SaveUpdatedTrials ==
    \E ts \in CreatedTrialLists, fi \in InitFaults : \E fs \in StoreFaults(fi) :
        Step("save_updated_trials", ts, NoObject, <<fi, fs>>,
             save_updated_trials(Here, TheExperiment, ts, db_settings, fi, fs))

\* The caller may pass any stretch of the strategy's runs; the length of the
\* durable run sequence is capped to keep the model finite.
UpdateGenerationStrategy ==
    \E rs \in RunLists(gs_runs), fi \in InitFaults : \E fs \in StoreFaults(fi) :
        /\ Len(db.runs) + Len(rs) <= MaxDurable
        /\ Step("update_generation_strategy", rs, NoObject, <<fi, fs>>,
                update_generation_strategy(Here, gs_runs, rs, db_settings, fi, fs))

\* The whole machine.  The specifications after it are its parts: each keeps
\* the actions of one store (or, for SpecCalls, starts from a state of Spec in
\* which the caller already holds a trial and a generator run), so every
\* behaviour of a part is a behaviour, or the tail of one, of Spec.
Next ==
    \/ AppendGeneratorRun
    \/ CreateTrial
    \/ ChangeTrial
    \/ GetExperimentId
    \/ GetGenerationStrategyId
    \/ LoadExperiment
    \/ SaveExperiment
    \/ LoadExperimentAndGenerationStrategy
    \/ SaveGenerationStrategy
    \/ SaveNewTrial
    \/ SaveNewTrials
    \/ SaveUpdatedTrial
    \/ SaveUpdatedTrials
    \/ UpdateGenerationStrategy

Spec == Init /\ [][Next]_vars

\* Every public function, called by a caller that holds an experiment with
\* one trial and a generation strategy with one generator run.
InitCalls ==
    /\ session = "none"
    /\ \E e \in ExperimentObjects \cup {NoObject} :
            db = [experiment |-> e, has_gs |-> FALSE, runs |-> <<>>, trials |-> NoTrials]
    /\ gs_runs = <<1>>
    /\ exp_trials = [NoTrials EXCEPT ![0] = 1]
    /\ op = [name |-> "start", xs |-> <<>>, obj |-> NoObject, faults |-> <<>>]
    /\ pre = [session |-> "none", db |-> db, gs_runs |-> gs_runs, exp_trials |-> exp_trials]
    /\ calls = <<>>
    /\ result = ReturnNone

NextCalls ==
    \/ GetExperimentId
    \/ GetGenerationStrategyId
    \/ LoadExperiment
    \/ SaveExperiment
    \/ LoadExperimentAndGenerationStrategy
    \/ SaveGenerationStrategy
    \/ SaveNewTrial
    \/ SaveNewTrials
    \/ SaveUpdatedTrial
    \/ SaveUpdatedTrials
    \/ UpdateGenerationStrategy

SpecCalls == InitCalls /\ [][NextCalls]_vars

\* The experiment store alone: saving and loading experiments and strategies.
NextLoad ==
    \/ AppendGeneratorRun
    \/ GetExperimentId
    \/ GetGenerationStrategyId
    \/ LoadExperiment
    \/ SaveExperiment
    \/ LoadExperimentAndGenerationStrategy
    \/ SaveGenerationStrategy

SpecLoad == Init /\ [][NextLoad]_vars

\* The generation strategy store alone.  load_experiment is kept as a call
\* that initialises the connection, which save_generation_strategy does not.
NextStrategy ==
    \/ AppendGeneratorRun
    \/ LoadExperiment
    \/ SaveGenerationStrategy
    \/ UpdateGenerationStrategy

SpecStrategy == Init /\ [][NextStrategy]_vars

\* The trial store alone.
NextTrials ==
    \/ CreateTrial
    \/ ChangeTrial
    \/ SaveNewTrial
    \/ SaveNewTrials
    \/ SaveUpdatedTrial
    \/ SaveUpdatedTrials

SpecTrials == Init /\ [][NextTrials]_vars

-----------------------------------------------------------------------------
\* Vocabulary of the properties

PublicNames ==
    {"get_experiment_id", "get_generation_strategy_id", "load_experiment",
     "save_experiment", "load_experiment_and_generation_strategy",
     "save_generation_strategy", "save_new_trial", "save_new_trials",
     "save_updated_trial", "save_updated_trials", "update_generation_strategy"}

\* The encoder/decoder functions of the store.
StoreFns ==
    {"_get_experiment_id", "_get_generation_strategy_id", "_load_experiment",
     "_load_generation_strategy_by_experiment_name", "_save_experiment",
     "_save_generation_strategy", "_save_new_trials", "_update_trials",
     "_update_generation_strategy"}

IsStoreCall(c) == c.fn \in StoreFns
StoreCalls(cs) == SelectSeq(cs, IsStoreCall)
CallsOf(cs, fn) == SelectSeq(cs, LAMBDA c : c.fn = fn)

\* The state in which the last step started.
PreState == State(pre.session, pre.db)
PreExperiment == [kind |-> "Experiment", trials |-> pre.exp_trials]

ConnectionFailed == result.kind = "raise" /\ result.err.cls = "ConnectionError"
NoFault == \A k \in DOMAIN op.faults : op.faults[k] = NoError

UnsupportedError == Error("ValueError", "Service API only supports Experiment")

-----------------------------------------------------------------------------
\* C1: every public function calls init_engine_and_session_factory, with the
\* settings' creator and url, before it invokes any encoder/decoder function
\* of the store.
C1_InitBeforeStore ==
    op.name \in PublicNames =>
        \A k \in DOMAIN calls :
            IsStoreCall(calls[k]) =>
                \E j \in 1 .. (k - 1) : calls[j] = InitCall(db_settings)

\* C2: load_experiment_and_generation_strategy returns (experiment, None)
\* only when no strategy is attached; any other failure of the strategy load
\* is raised to the caller.
C2_OnlyNoStrategyBecomesNone ==
    op.name = "load_experiment_and_generation_strategy" =>
        /\ (result.kind = "return" /\ result.strategy = "None") => ~pre.db.has_gs
        /\ (Len(calls) = 4 /\ pre.db.has_gs /\ op.faults[3] # NoError) =>
                result = Raise(op.faults[3])

\* C3 as stated: update_generation_strategy with no new generator runs
\* leaves the durable runs as they were and does not invoke
\* _update_generation_strategy at all.
C3_EmptyUpdateNoEncoderCall ==
    (op.name = "update_generation_strategy" /\ op.xs = <<>>) =>
        /\ db.runs = pre.db.runs
        /\ CallsOf(calls, "_update_generation_strategy") = <<>>

\* C3 amended: update_generation_strategy with no new generator runs leaves
\* the durable runs as they were, but it still initialises the connection and,
\* unless that fails, invokes _update_generation_strategy exactly once, with
\* the empty list.
C3_EmptyUpdateOneEncoderCall ==
    (op.name = "update_generation_strategy" /\ op.xs = <<>>) =>
        /\ db.runs = pre.db.runs
        /\ db.has_gs = pre.db.has_gs
        /\ calls[1] = InitCall(db_settings)
        /\ ~ConnectionFailed =>
              StoreCalls(calls) =
                  <<Call("_update_generation_strategy",
                         <<"generation_strategy", db_settings.encoder>>, <<>>)>>

C3_Witness ==
    /\ op.name = "update_generation_strategy"
    /\ op.xs = <<>>
    /\ result.kind = "return"
    /\ Len(pre.db.runs) >= 1
    /\ Len(gs_runs) > Len(pre.db.runs)

\* C4: load_experiment never returns an unsupported object: when the decoded
\* object is no Experiment or is a SimpleExperiment the call raises the
\* "Service API only supports Experiment" error, after the decoder call and
\* without the "Loaded experiment" log; whatever it returns is a full
\* Experiment.
C4_LoadExperimentRejectsUnsupported ==
    op.name = "load_experiment" =>
        /\ result.kind = "return" =>
              /\ IsInstanceExperiment(result.experiment)
              /\ ~is_simple_experiment(result.experiment)
        /\ (NoFault /\ pre.db.experiment \in {"SimpleExperiment", "Other"}) =>
              /\ result = Raise(UnsupportedError)
              /\ calls = <<InitCall(db_settings),
                           Call("_load_experiment",
                                <<experiment_name, db_settings.decoder>>, <<>>)>>

C4_Witness ==
    /\ op.name = "load_experiment"
    /\ pre.db.experiment = "SimpleExperiment"
    /\ NoFault
    /\ result = Raise(UnsupportedError)

\* C5: load_experiment_and_generation_strategy on a stored full Experiment
\* returns (experiment, None) when no strategy is attached, without raising,
\* and (experiment, strategy) when one is attached.
C5_MissingStrategyIsNone ==
    (/\ op.name = "load_experiment_and_generation_strategy"
     /\ pre.db.experiment = "Experiment"
     /\ op.faults[1] = NoError /\ op.faults[2] = NoError) =>
        /\ ~pre.db.has_gs => result = Return("Experiment", "None", <<>>, 0)
        /\ (pre.db.has_gs /\ op.faults[3] = NoError) =>
              result = Return("Experiment", "GenerationStrategy", pre.db.runs, 0)

C5_Witness ==
    /\ op.name = "load_experiment_and_generation_strategy"
    /\ pre.db.experiment = "Experiment"
    /\ ~pre.db.has_gs
    /\ result = Return("Experiment", "None", <<>>, 0)
    /\ Len(calls) = 4

\* C6: when the durable runs of a saved strategy are the first k in-memory
\* runs and update_generation_strategy is called with runs k+1..k+n, the
\* encoder is invoked at most once and is handed exactly those n runs in
\* their order (none of the first k), and when the call returns the store
\* holds exactly k+n runs.
C6_UpdateHandsOverExactlyTheNewRuns ==
    LET k == Len(pre.db.runs)
        n == Len(op.xs)
        enc == CallsOf(calls, "_update_generation_strategy")
    IN  (/\ op.name = "update_generation_strategy"
         /\ pre.db.has_gs
         /\ IsPrefix(pre.db.runs, gs_runs)
         /\ k + n <= Len(gs_runs)
         /\ op.xs = SubSeq(gs_runs, k + 1, k + n)) =>
            /\ Len(enc) <= 1
            /\ \A c \in DOMAIN enc :
                  /\ enc[c].xs = op.xs
                  /\ \A i \in DOMAIN enc[c].xs : enc[c].xs[i] > k
            /\ ~ConnectionFailed => Len(enc) = 1
            /\ result.kind = "return" =>
                  /\ Len(db.runs) = k + n
                  /\ db.runs = SubSeq(gs_runs, 1, k + n)

C6_Witness ==
    /\ op.name = "update_generation_strategy"
    /\ pre.db.has_gs
    /\ Len(pre.db.runs) = 1
    /\ pre.db.runs = <<1>>
    /\ op.xs = <<2, 3>>
    /\ result.kind = "return"
    /\ db.runs = <<1, 2, 3>>

\* C7 as stated: whatever save_generation_strategy and
\* update_generation_strategy calls are made, the durable runs are a prefix
\* of the in-memory runs.
C7_DurableRunsArePrefix == IsPrefix(db.runs, gs_runs)

\* C7 amended: the function does not check what it is handed, so the
\* invariant is kept step by step, depending on the list.  From a state in
\* which the durable runs are a prefix of the in-memory runs: every step
\* other than an update_generation_strategy call keeps them a prefix; an
\* update_generation_strategy call that raises leaves the durable runs as
\* they were; one that returns persists exactly the list it was handed,
\* appended to the durable runs, so the durable runs are a prefix afterwards
\* exactly when that list is a prefix of the in-memory runs not yet durable
\* (the empty list included), and they equal the in-memory runs when it is
\* all of those.
C7_PrefixKeptWhenHandedPendingRuns ==
    LET k == Len(pre.db.runs)
        pending == SubSeq(pre.gs_runs, k + 1, Len(pre.gs_runs))
        update == op.name = "update_generation_strategy"
    IN  IsPrefix(pre.db.runs, pre.gs_runs) =>
            /\ ~update => IsPrefix(db.runs, gs_runs)
            /\ (update /\ result.kind = "raise") => db.runs = pre.db.runs
            /\ (update /\ result.kind = "return") =>
                  /\ db.runs = pre.db.runs \o op.xs
                  /\ IsPrefix(db.runs, gs_runs) <=> IsPrefix(op.xs, pending)
                  /\ op.xs = pending => db.runs = gs_runs
            /\ (update /\ IsPrefix(op.xs, pending)) => IsPrefix(db.runs, gs_runs)

C7_Witness ==
    /\ op.name = "update_generation_strategy"
    /\ pre.db.runs = <<1>>
    /\ pre.gs_runs = <<1, 2, 3>>
    /\ op.xs = <<2, 3>>
    /\ result.kind = "return"
    /\ db.runs = gs_runs

\* C8: save_new_trial(experiment, trial) does exactly what
\* save_new_trials(experiment, [trial]) does from the same state with the
\* same collaborators: the same invocations (init_engine_and_session_factory,
\* then one _save_new_trials with trials = [trial]), the same outcome, the
\* same store; likewise save_updated_trial and save_updated_trials
\* (_update_trials).
C8_SingleTrialFormsAreBatchForms ==
    /\ op.name = "save_new_trial" =>
          LET b == save_new_trials(PreState, PreExperiment, <<op.xs[1]>>, db_settings,
                                   op.faults[1], op.faults[2])
          IN  /\ calls = b.calls
              /\ result = b.result
              /\ State(session, db) = b.st
              /\ StoreCalls(calls) \in
                    {<<>>, <<Call("_save_new_trials",
                                  <<experiment_name, db_settings.encoder>>, <<op.xs[1]>>)>>}
    /\ op.name = "save_updated_trial" =>
          LET b == save_updated_trials(PreState, PreExperiment, <<op.xs[1]>>, db_settings,
                                       op.faults[1], op.faults[2])
          IN  /\ calls = b.calls
              /\ result = b.result
              /\ State(session, db) = b.st
              /\ StoreCalls(calls) \in
                    {<<>>, <<Call("_update_trials",
                                  <<experiment_name, db_settings.encoder>>, <<op.xs[1]>>)>>}

C8_Witness ==
    /\ op.name = "save_new_trial"
    /\ op.xs = <<1>>
    /\ result.kind = "return"
    /\ calls = <<InitCall(db_settings),
                 Call("_save_new_trials", <<experiment_name, db_settings.encoder>>, <<1>>),
                 LogCall("Saved trials")>>
    /\ pre.db.trials[1] = 0
    /\ db.trials[1] > 0

IsNewTrialsCall == op.name \in {"save_new_trial", "save_new_trials"}
IsUpdatedTrialsCall == op.name \in {"save_updated_trial", "save_updated_trials"}
Listed(i) == \E k \in DOMAIN op.xs : op.xs[k] = i

\* C9 as stated: whatever calls are made, a save_new_trials call that
\* completes has written no trial that was already durable, and a
\* save_updated_trials call that completes has written only trials that were
\* already durable.
C9_TrialWritesMatchDurability ==
    /\ (IsNewTrialsCall /\ result.kind = "return") =>
          \A i \in TrialIdx : Listed(i) => pre.db.trials[i] = 0
    /\ (IsUpdatedTrialsCall /\ result.kind = "return") =>
          \A i \in TrialIdx : Listed(i) => pre.db.trials[i] > 0

\* C9 amended: the functions hand the caller's list to the encoder unchecked,
\* so the property holds of the calls whose list is classified correctly: a
\* save_new_trials call listing only trials that are not durable leaves every
\* durable trial row as it was, and a save_updated_trials call listing only
\* durable trials creates no trial row; either writes the listed trials only.
C9_CorrectlyClassifiedWritesAreSafe ==
    /\ (IsNewTrialsCall /\ \A i \in TrialIdx : Listed(i) => pre.db.trials[i] = 0) =>
          /\ \A i \in TrialIdx : pre.db.trials[i] > 0 => db.trials[i] = pre.db.trials[i]
          /\ \A i \in TrialIdx : ~Listed(i) => db.trials[i] = pre.db.trials[i]
          /\ \A c \in DOMAIN calls : IsStoreCall(calls[c]) => calls[c].xs = op.xs
    /\ (IsUpdatedTrialsCall /\ \A i \in TrialIdx : Listed(i) => pre.db.trials[i] > 0) =>
          /\ \A i \in TrialIdx : pre.db.trials[i] = 0 => db.trials[i] = 0
          /\ \A i \in TrialIdx : ~Listed(i) => db.trials[i] = pre.db.trials[i]
          /\ \A c \in DOMAIN calls : IsStoreCall(calls[c]) => calls[c].xs = op.xs

C9_Witness ==
    /\ op.name = "save_new_trials"
    /\ op.xs = <<1>>
    /\ result.kind = "return"
    /\ pre.db.trials[0] = 1
    /\ exp_trials[0] = 2
    /\ pre.db.trials[1] = 0
    /\ db.trials[0] = 1
    /\ db.trials[1] > 0

\* C10 as stated: every public call that gets past the connection
\* initialisation invokes exactly one encoder/decoder function of the store.
C10_ExactlyOneStoreCall ==
    (op.name \in PublicNames /\ ~ConnectionFailed) => Len(StoreCalls(calls)) = 1

\* C10 amended: every public call other than
\* load_experiment_and_generation_strategy that gets past the connection
\* initialisation invokes exactly one store function, and its elapsed-time
\* log, if any, is its last invocation.  load_experiment_and_generation_strategy
\* invokes _load_experiment and, whenever that load succeeds, a second store
\* function, _load_generation_strategy_by_experiment_name, after the
\* "Loaded experiment" log -- also when no strategy is attached.  Every
\* public function but save_generation_strategy starts with the connection
\* initialisation.
C10_OneStoreCallExceptCombinedLoad ==
    LET logs == {k \in DOMAIN calls : calls[k].fn = "logger.debug"}
        combined == op.name = "load_experiment_and_generation_strategy"
    IN  /\ (op.name \in PublicNames /\ op.name # "save_generation_strategy") =>
              calls[1] = InitCall(db_settings)
        /\ (op.name \in PublicNames /\ ~combined /\ ~ConnectionFailed) =>
              /\ Len(StoreCalls(calls)) = 1
              /\ IsStoreCall(calls[Len(calls) - Cardinality(logs)])
              /\ logs \subseteq {Len(calls)}
        /\ (combined /\ ~ConnectionFailed) =>
              IF \E k \in logs : calls[k] = LogCall("Loaded experiment")
              THEN calls =
                    <<InitCall(db_settings),
                      Call("_load_experiment", <<experiment_name, db_settings.decoder>>, <<>>),
                      LogCall("Loaded experiment"),
                      Call("_load_generation_strategy_by_experiment_name",
                           <<experiment_name, db_settings.decoder>>, <<>>)>>
              ELSE /\ calls =
                        <<InitCall(db_settings),
                          Call("_load_experiment",
                               <<experiment_name, db_settings.decoder>>, <<>>)>>
                   /\ result.kind = "raise"

C10_Witness ==
    /\ op.name = "load_experiment_and_generation_strategy"
    /\ ~pre.db.has_gs
    /\ result = Return("Experiment", "None", <<>>, 0)
    /\ Len(StoreCalls(calls)) = 2

====
